---------------------------- MODULE Spec2Model ----------------------------
(***************************************************************************)
(* A model of src/daemon/bragi_common.c of ckb-next: the Bragi property    *)
(* codec (bragi_get_property, bragi_set_property), the chunked write       *)
(* framer (bragi_calculate_buffer_size, bragi_write_to_handle) and the     *)
(* dongle sub-device discovery (bragi_update_dongle_subdevs).              *)
(*                                                                         *)
(* The specifications of the module, by component:                         *)
(*   FramerSpec   the chunked write framer, one call at a time             *)
(*   CodecSpec    the property codec, one call at a time                   *)
(*   DongleSpec   discovery, several threads over one device pool          *)
(*   DongleSeqSpec  discovery with a single invoking thread                *)
(*   DongleFaultSpec  the same, with transport failures                    *)
(*   DongleLiveSpec  discovery by two threads under fair scheduling        *)
(* Each leaves the other components' variables at their initial values.    *)
(***************************************************************************)
EXTENDS Integers, Sequences, FiniteSets, TLC

(***************************************************************************)
(* Protocol constants.  bragi_proto.h is not part of the sources at hand;  *)
(* the values are those of the wire format and only their being bytes      *)
(* matters to the properties below.                                        *)
(***************************************************************************)
BRAGI_MAGIC == 8
BRAGI_SET == 1
BRAGI_GET == 2
BRAGI_WRITE_DATA == 6
BRAGI_CONTINUE_WRITE == 7
BRAGI_LIGHTING_HANDLE == 0

(***************************************************************************)
(*                              State                                      *)
(***************************************************************************)
VARIABLES
    wpc,        \* position of the caller: "idle", "sized", "first", "loop", "done"
    wP,         \* kb->out_ep_packet_size
    wL,         \* data_len
    wReq,       \* what bragi_calculate_buffer_size returned to the caller
    wBufLen,    \* buf_len
    wHandle,    \* handle
    wNdebug,    \* TRUE when built with NDEBUG (the size check compiled out)
    mem,        \* the bytes at pkt[0..]: the caller's buffer, then what follows it
    pkt_out,    \* offset of pkt_out from pkt
    sent,       \* packets handed to usbrecv so far: [off, data]
    resps,      \* the transport's answer to each: [ok, status]
    wret        \* the call's return value (-1 while running)

wvars == <<wpc, wP, wL, wReq, wBufLen, wHandle, wNdebug, mem, pkt_out, sent,
           resps, wret>>

VARIABLES
    cpc,      \* "idle", "get", "set", "done"
    cop,      \* the call: "get", "set" or "none"
    cprop,    \* prop
    cval,     \* val (bragi_set_property)
    creq,     \* the packets handed to usbrecv during the call
    cresp,    \* usbrecv's result and the response buffer: [ok, bytes]
    cret      \* the return value

cvars == <<cpc, cop, cprop, cval, creq, cresp, cret>>

VARIABLES
    keyboard,   \* the device pool: keyboard[d] is the usbdevice at keyboard + d
    dmutex,     \* dmutex(keyboard + d): the thread holding it, or 0
    cmutex,     \* cmutex(keyboard + d): the thread holding it, or 0
    handed,     \* handed[d]: setupusb was given d and has not finished with it
    tpc,        \* where each thread is in bragi_update_dongle_subdevs
    tkb,        \* kb of the thread's invocation
    tprop,      \* prop of the thread's invocation
    ti,         \* i
    tindex,     \* index
    tsub,       \* subkb
    tvid,       \* vid
    tlog,       \* what the invocation has done so far
    calls,      \* calls of bragi_update_dongle_subdevs made so far
    snap        \* the pool when the invocation under observation began

dvars == <<keyboard, dmutex, cmutex, handed, tpc, tkb, tprop, ti, tindex, tsub,
           tvid, tlog, calls, snap>>

\* Bounds of the model.
MinPacket == 8
MaxPacket == 9
MaxDataLen == 13

Max(a, b) == IF a >= b THEN a ELSE b

(***************************************************************************)
(*                       Chunked write framer                              *)
(***************************************************************************)

\* A variant of the size formula that forgets the partial last packet.
bragi_calculate_buffer_size_common_floor(P, data_len, offset) ==
    LET size_without_first == data_len - P + offset
    IN  IF size_without_first >= 0
        THEN (1 + size_without_first \div (P - 3)) * P
        ELSE P

\* bragi_calculate_buffer_size_common: P is kb->out_ep_packet_size.  The
\* arithmetic is int64_t/size_t and cannot wrap for a uint32_t data_len.
bragi_calculate_buffer_size_common(P, data_len, offset) ==
    LET size_without_first == data_len - P + offset
    IN  IF size_without_first >= 0
        THEN LET q == 1 + size_without_first \div (P - 3)
                 req_pkt_count == IF size_without_first % (P - 3) # 0
                                  THEN q + 1 ELSE q
             IN  req_pkt_count * P
        ELSE P

\* A size computed for the three bytes of a continuation header instead of
\* the seven of the first packet's.
bragi_calculate_buffer_size_short(P, data_len) ==
    bragi_calculate_buffer_size_common(P, data_len, 3)

\* bragi_calculate_buffer_size (lines 48-50).
bragi_calculate_buffer_size(P, data_len) ==
    bragi_calculate_buffer_size_common(P, data_len, 7)

\* The k-th payload byte (k from 0) the caller wants written: distinct
\* marks, so that a delivered byte tells which payload byte it is.
PayloadByte(k) == 16 + k

Payload(L) == [k \in 1..L |-> PayloadByte(k - 1)]

\* Memory from pkt on when the call is made: a buffer of bufLen bytes with
\* seven zero header bytes, the payload from offset 7 and zero padding; what
\* lies past the buffer is not the caller's and holds adj.
InitialMem(P, L, bufLen, adj) ==
    [j \in 1..Max(bufLen, L + 7 + P) |->
        IF j - 1 >= bufLen THEN adj
        ELSE IF j - 1 >= 7 /\ j - 1 < 7 + L THEN PayloadByte(j - 8)
        ELSE 0]

Byte(m, off) == IF off + 1 \in DOMAIN m THEN m[off + 1] ELSE 0

\* The bytes a packet of size P carries when usbrecv is given pkt + off.
Window(m, off, P) == [k \in 1..P |-> Byte(m, off + k - 1)]

\* m with bytes written from offset off on.
Poke(m, off, bytes) ==
    [j \in DOMAIN m |->
        IF j - 1 >= off /\ j - 1 < off + Len(bytes) THEN bytes[j - off] ELSE m[j]]

\* memcpy(pkt + 3, &data_len, sizeof(uint32_t)) on a little-endian host.
LE32(n) == << n % 256, (n \div 256) % 256, (n \div 65536) % 256,
              (n \div 16777216) % 256 >>

FirstHeader(handle, data_len) ==
    << BRAGI_MAGIC, BRAGI_WRITE_DATA, handle >> \o LE32(data_len)

ContinueHeader == << BRAGI_MAGIC, BRAGI_CONTINUE_WRITE, BRAGI_LIGHTING_HANDLE >>

\* The status bytes a device answers with, and the bytes found past a buffer.
Statuses == {0, 5}
AdjBytes == {0, 238}
Handles == {0, 1}

WInit ==
    /\ wpc = "idle"
    /\ wP = MinPacket
    /\ wL = 0
    /\ wReq = 0
    /\ wBufLen = 0
    /\ wHandle = 0
    /\ wNdebug = FALSE
    /\ mem = << >>
    /\ pkt_out = 0
    /\ sent = << >>
    /\ resps = << >>
    /\ wret = -1

\* The caller asks bragi_calculate_buffer_size how large a buffer the
\* payload of L bytes needs on a device of packet size P.
CalcCall(P, L) ==
    /\ wpc = "idle"
    /\ wP' = P /\ wL' = L
    /\ wReq' = bragi_calculate_buffer_size(P, L)
    /\ wpc' = "sized"
    /\ UNCHANGED <<wBufLen, wHandle, wNdebug, mem, pkt_out, sent, resps, wret>>
    /\ UNCHANGED <<cvars, dvars>>

\* The buffer lengths a call is made with: the required size, more, and less.
BufLens(req, P) == {req, req + 1, req - 1, req - P}

\* The size check of a debug build fails (lines 55-61).
SizeCheckFails(ndebug, P, L, bufLen) ==
    /\ ~ndebug
    /\ bragi_calculate_buffer_size_common(P, L, 7) > bufLen

\* bragi_write_to_handle is entered (lines 54-70): the size check of a
\* debug build, which returns 0, then the header of the first packet is
\* written over pkt[0..6].
WriteCall(bufLen, handle, ndebug, adj) ==
    /\ wpc = "sized"
    /\ wBufLen' = bufLen /\ wHandle' = handle /\ wNdebug' = ndebug
    /\ IF SizeCheckFails(ndebug, wP, wL, bufLen)
       THEN /\ mem' = InitialMem(wP, wL, bufLen, adj)
            /\ wpc' = "done"
            /\ wret' = 0
       ELSE /\ mem' = Poke(InitialMem(wP, wL, bufLen, adj), 0,
                           FirstHeader(handle, wL))
            /\ wpc' = "first"
            /\ wret' = -1
    /\ UNCHANGED <<wP, wL, wReq, pkt_out, sent, resps>>
    /\ UNCHANGED <<cvars, dvars>>

\* usbrecv(kb, pkt, ...) of the first packet (lines 73-75); the response's
\* status is not looked at (line 79).
SendFirst(ok, status) ==
    /\ wpc = "first"
    /\ sent' = Append(sent, [off |-> 0, data |-> Window(mem, 0, wP)])
    /\ resps' = Append(resps, [ok |-> ok, status |-> status])
    /\ IF ~ok
       THEN wpc' = "done" /\ wret' = 1
       ELSE wpc' = "loop" /\ wret' = wret
    /\ UNCHANGED <<wP, wL, wReq, wBufLen, wHandle, wNdebug, mem, pkt_out>>
    /\ UNCHANGED <<cvars, dvars>>

\* A loop condition that lets the window start reach the payload's end.
LoopContinuesLe(po, P, L) == po + P <= L + 7

\* The loop condition of line 82: (pkt_out += P) < pkt + data_len + offset.
LoopContinues(po, P, L) == po + P < L + 7

\* A continuation that does not step back over the last three bytes sent.
ContinuationOffsetNoStepBack(po, P) == po + P

\* Lines 82 and 84: pkt_out += P, then pkt_out -= 3.
ContinuationOffset(po, P) == po + P - 3

\* A loop that goes on after usbrecv failed.
AfterSendIgnoringFailure(ok, status) == "loop"

\* A loop that gives up on a non-zero status byte.
AfterSendAbortOnStatus(ok, status) ==
    IF ~ok \/ status # 0 THEN "done" ELSE "loop"

\* Lines 89-93: return 1 when usbrecv failed; otherwise go on whatever the
\* status byte (bragi_check_success only reports it).
AfterSend(ok, status) == IF ~ok THEN "done" ELSE "loop"

\* One iteration of the loop of lines 82-94 whose condition holds: step
\* back three bytes, write the continuation header there and send.
SendContinuation(ok, status) ==
    /\ wpc = "loop"
    /\ LoopContinues(pkt_out, wP, wL)
    /\ LET po == ContinuationOffset(pkt_out, wP)
           m  == Poke(mem, po, ContinueHeader)
       IN  /\ pkt_out' = po
           /\ mem' = m
           /\ sent' = Append(sent, [off |-> po, data |-> Window(m, po, wP)])
           /\ resps' = Append(resps, [ok |-> ok, status |-> status])
           /\ wpc' = AfterSend(ok, status)
           /\ wret' = IF AfterSend(ok, status) = "done" THEN 1 ELSE wret
    /\ UNCHANGED <<wP, wL, wReq, wBufLen, wHandle, wNdebug>>
    /\ UNCHANGED <<cvars, dvars>>

\* The loop condition fails: return 0 (line 96).
WriteReturn ==
    /\ wpc = "loop"
    /\ ~LoopContinues(pkt_out, wP, wL)
    /\ pkt_out' = pkt_out + wP
    /\ wpc' = "done"
    /\ wret' = 0
    /\ UNCHANGED <<wP, wL, wReq, wBufLen, wHandle, wNdebug, mem, sent, resps>>
    /\ UNCHANGED <<cvars, dvars>>

(***************************************************************************)
(*                          Property codec                                 *)
(***************************************************************************)

\* a | b on non-negative integers.
RECURSIVE BitOr(_, _)
BitOr(a, b) ==
    IF a = 0 THEN b
    ELSE IF b = 0 THEN a
    ELSE (IF a % 2 = 1 \/ b % 2 = 1 THEN 1 ELSE 0) + 2 * BitOr(a \div 2, b \div 2)

\* A decoder that takes response[3] for the high byte.
bragi_get_property_result_swapped(ok, response) ==
    IF ~ok THEN -1
    ELSE IF response[3] # 0 THEN -2
    ELSE BitOr(response[4] * 256, response[5])

\* What bragi_get_property returns (lines 9-15) when usbrecv returned ok and
\* left response (bytes 0.., here from index 1) behind.
bragi_get_property_result(ok, response) ==
    IF ~ok THEN -1
    ELSE IF response[3] # 0 THEN -2
    ELSE BitOr(response[5] * 256, response[4])

\* What bragi_set_property returns (lines 23-29).
bragi_set_property_result(ok, response) ==
    IF ~ok THEN -1
    ELSE IF response[3] # 0 THEN -2
    ELSE 0

\* The first six bytes of the packet of line 7; the other bytes are 0.
GetPacket(prop) == << BRAGI_MAGIC, BRAGI_GET, prop, 0, 0, 0 >>

\* A packet that carries val high byte first.
SetPacketBigEndian(prop, val) ==
    << BRAGI_MAGIC, BRAGI_SET, prop, 0, (val \div 256) % 256, val % 256 >>

\* The first six bytes of the packet of line 21: val&255 and val>>8 of a
\* ushort, each stored in a uchar; the other bytes are 0.
SetPacket(prop, val) ==
    << BRAGI_MAGIC, BRAGI_SET, prop, 0, (val % 256) % 256, (val \div 256) % 256 >>

\* response[] = {0} before usbrecv.
ZeroResponse == << 0, 0, 0, 0, 0 >>

PropIds == {1, 5, 17}
PropValues == {0, 1, 255, 256, 4660, 65535}
RespBytes == {0, 18, 52, 255}

\* The first five bytes a device may answer with.
Responses == { << 0, 0, s, lo, hi >> : s \in {0, 5}, lo \in RespBytes, hi \in RespBytes }

CInit ==
    /\ cpc = "idle"
    /\ cop = "none"
    /\ cprop = 0
    /\ cval = 0
    /\ creq = << >>
    /\ cresp = [ok |-> FALSE, bytes |-> ZeroResponse]
    /\ cret = 0

\* bragi_get_property is entered: pkt and response are set up (lines 7-8).
GetCall(prop) ==
    /\ cpc \in {"idle", "done"}
    /\ cpc' = "get" /\ cop' = "get" /\ cprop' = prop /\ cval' = 0
    /\ creq' = << >>
    /\ cresp' = [ok |-> FALSE, bytes |-> ZeroResponse]
    /\ cret' = 0
    /\ UNCHANGED <<wvars, dvars>>

\* usbrecv and the decoding of its answer (lines 9-15).  A failed usbrecv
\* leaves response as it was.
GetTransact(ok, response) ==
    /\ cpc = "get"
    /\ creq' = Append(creq, GetPacket(cprop))
    /\ cresp' = [ok |-> ok, bytes |-> IF ok THEN response ELSE cresp.bytes]
    /\ cret' = bragi_get_property_result(ok, IF ok THEN response ELSE cresp.bytes)
    /\ cpc' = "done"
    /\ UNCHANGED <<cop, cprop, cval>>
    /\ UNCHANGED <<wvars, dvars>>

\* bragi_set_property is entered (lines 21-22).
SetCall(prop, val) ==
    /\ cpc \in {"idle", "done"}
    /\ cpc' = "set" /\ cop' = "set" /\ cprop' = prop /\ cval' = val
    /\ creq' = << >>
    /\ cresp' = [ok |-> FALSE, bytes |-> ZeroResponse]
    /\ cret' = 0
    /\ UNCHANGED <<wvars, dvars>>

\* usbrecv and the reading of the status byte (lines 23-29).
SetTransact(ok, response) ==
    /\ cpc = "set"
    /\ creq' = Append(creq, SetPacket(cprop, cval))
    /\ cresp' = [ok |-> ok, bytes |-> IF ok THEN response ELSE cresp.bytes]
    /\ cret' = bragi_set_property_result(ok, IF ok THEN response ELSE cresp.bytes)
    /\ cpc' = "done"
    /\ UNCHANGED <<cop, cprop, cval>>
    /\ UNCHANGED <<wvars, dvars>>

(***************************************************************************)
(*                 Dongle sub-device discovery                             *)
(***************************************************************************)

\* The pool is keyboard[1 .. DEV_MAX-1] (line 137); the program's DEV_MAX
\* is larger, the model keeps the pool small.
DEV_MAX == 5

\* The calls of bragi_update_dongle_subdevs a behaviour makes in all.
MaxCalls == 3

\* device.h and bragi_proto.h are not part of the sources at hand.
DEV_STATUS_DISCONNECTED == 0
DEV_STATUS_CONNECTING == 1
DEV_STATUS_CONNECTED == 2
BRAGI_VID == 17
BRAGI_PID == 18

\* The null pointer, and "no thread" as the holder of a mutex.
NULL == 0

Devs == 1..(DEV_MAX - 1)
Dongles == {1, 2}
Threads == {1, 2}

\* The child ids of the loops of lines 109 and 126.
ChildIds == 1..7

\* The presence bitmasks a dongle reports.
Props == {0, 2, 128, 130}

\* What the sub-device answers to the VID and PID queries.
DongleResponses == { << 0, 0, 0, 28, 27 >> }

\* (prop >> i) & 1
Bit(prop, i) == (prop \div (2 ^ i)) % 2 = 1

\* The conversion of bragi_get_property's long to ushort (lines 168-169).
ToUshort(x) == x % 65536

\* A usbdevice that is not in use.
ZeroDevice ==
    [ status |-> DEV_STATUS_DISCONNECTED, fwversion |-> 0, parent |-> NULL,
      out_ep_packet_size |-> 0, vtable |-> "none", bragi_child_id |-> 0,
      vendor |-> 0, product |-> 0, children |-> [i \in ChildIds |-> NULL] ]

\* A connected dongle without sub-devices.
DongleDevice(d) ==
    [ ZeroDevice EXCEPT !.status = DEV_STATUS_CONNECTED,
                        !.out_ep_packet_size = 64 * d ]

DInit ==
    /\ keyboard = [d \in Devs |-> IF d \in Dongles THEN DongleDevice(d) ELSE ZeroDevice]
    /\ dmutex = [d \in Devs |-> NULL]
    /\ cmutex = [d \in Devs |-> NULL]
    /\ handed = [d \in Devs |-> FALSE]
    /\ tpc = [t \in Threads |-> "idle"]
    /\ tkb = [t \in Threads |-> 1]
    /\ tprop = [t \in Threads |-> 0]
    /\ ti = [t \in Threads |-> 0]
    /\ tindex = [t \in Threads |-> 0]
    /\ tsub = [t \in Threads |-> NULL]
    /\ tvid = [t \in Threads |-> 0]
    /\ tlog = [t \in Threads |-> << >>]
    /\ calls = 0
    /\ snap = [keyboard |-> << >>, dmutex |-> << >>]

Logged(t, event) == [tlog EXCEPT ![t] = Append(@, event)]

\* A trylock that takes the mutex whoever holds it.
queued_mutex_trylock_blind(m, d) == FALSE

\* queued_mutex_trylock(dmutex(keyboard + d)) for the mutexes m: non-zero
\* (TRUE) when the mutex is held and cannot be taken (line 139).
queued_mutex_trylock(m, d) == m[d] # NULL

\* An unlock that leaves the mutex locked.
queued_mutex_unlock_noop(m, d) == m

\* queued_mutex_unlock(dmutex(keyboard + d)) (lines 122, 146).
queued_mutex_unlock(m, d) == [m EXCEPT ![d] = NULL]

\* An unlock that leaves the children-set lock locked.
pthread_mutex_unlock_noop(m, d) == m

\* pthread_mutex_unlock(cmutex(keyboard + d)) (lines 165, 181).
pthread_mutex_unlock(m, d) == [m EXCEPT ![d] = NULL]

\* bragi_update_dongle_subdevs(kb, prop) is called by thread t.
Call(t, kb, prop) ==
    /\ tpc[t] \in {"idle", "done"}
    /\ tpc' = [tpc EXCEPT ![t] = "enter"]
    /\ tkb' = [tkb EXCEPT ![t] = kb]
    /\ tprop' = [tprop EXCEPT ![t] = prop]
    /\ ti' = [ti EXCEPT ![t] = 0]
    /\ tindex' = [tindex EXCEPT ![t] = 0]
    /\ tsub' = [tsub EXCEPT ![t] = NULL]
    /\ tvid' = [tvid EXCEPT ![t] = 0]
    /\ tlog' = [tlog EXCEPT ![t] = << >>]
    /\ UNCHANGED <<keyboard, dmutex, cmutex, handed>>
    /\ UNCHANGED <<wvars, cvars>>

\* A call made while other threads may be calling too.
Invoke(t, kb, prop) ==
    /\ calls < MaxCalls
    /\ calls' = calls + 1
    /\ Call(t, kb, prop)
    /\ UNCHANGED snap

\* A call of the only invoking thread; the pool is recorded as it is found.
InvokeAlone(t, kb, prop) ==
    /\ calls < MaxCalls
    /\ calls' = calls + 1
    /\ Call(t, kb, prop)
    /\ snap' = [keyboard |-> keyboard, dmutex |-> dmutex]

\* pthread_mutex_lock(cmutex(kb)) (line 106).
LockChildren(t) ==
    /\ tpc[t] = "enter"
    /\ cmutex[tkb[t]] = NULL
    /\ cmutex' = [cmutex EXCEPT ![tkb[t]] = t]
    /\ tpc' = [tpc EXCEPT ![t] = "disc"]
    /\ ti' = [ti EXCEPT ![t] = 1]
    /\ UNCHANGED <<keyboard, dmutex, handed, tkb, tprop, tindex, tsub, tvid, tlog, calls, snap>>
    /\ UNCHANGED <<wvars, cvars>>

\* A disconnect sweep that does not look at the presence bits.
ToDisconnectIgnoringBits(kb, prop, i) ==
    { j \in ChildIds : j >= i /\ keyboard[kb].children[j] # NULL }

\* The child ids from i on whose bit is clear and whose entry is occupied
\* (lines 110-114).
ToDisconnect(kb, prop, i) ==
    { j \in ChildIds : j >= i /\ ~Bit(prop, j) /\ keyboard[kb].children[j] # NULL }

\* A connect sweep that does not skip the children already added.
ToConnectIgnoringOccupied(kb, prop, i) ==
    { j \in ChildIds : j >= i /\ Bit(prop, j) }

\* The child ids from i on whose bit is set and whose entry is empty
\* (lines 127-132).
ToConnect(kb, prop, i) ==
    { j \in ChildIds : j >= i /\ Bit(prop, j) /\ keyboard[kb].children[j] = NULL }

Least(S) == CHOOSE x \in S : \A y \in S : x <= y

\* The loop of line 109 comes to a child to disconnect and takes its
\* lifecycle lock, waiting for it (lines 117-118).
DisconnectLock(t) ==
    /\ tpc[t] = "disc"
    /\ ToDisconnect(tkb[t], tprop[t], ti[t]) # {}
    /\ LET i == Least(ToDisconnect(tkb[t], tprop[t], ti[t]))
           subkb == keyboard[tkb[t]].children[i]
       IN  /\ dmutex[subkb] = NULL
           /\ dmutex' = [dmutex EXCEPT ![subkb] = t]
           /\ ti' = [ti EXCEPT ![t] = i]
           /\ tsub' = [tsub EXCEPT ![t] = subkb]
    /\ tpc' = [tpc EXCEPT ![t] = "close"]
    /\ UNCHANGED <<keyboard, cmutex, handed, tkb, tprop, tindex, tvid, tlog, calls, snap>>
    /\ UNCHANGED <<wvars, cvars>>

\* closeusb(subkb): the device is torn down and its slot is free again.
closeusb(dev) == ZeroDevice

\* closeusb, kb->children[i-1] = NULL and the unlock (lines 119-122).
DisconnectClose(t) ==
    /\ tpc[t] = "close"
    /\ keyboard' = [keyboard EXCEPT
                       ![tsub[t]] = closeusb(@),
                       ![tkb[t]].children[ti[t]] = NULL]
    /\ dmutex' = queued_mutex_unlock(dmutex, tsub[t])
    /\ ti' = [ti EXCEPT ![t] = @ + 1]
    /\ tpc' = [tpc EXCEPT ![t] = "disc"]
    /\ tlog' = Logged(t, [ev |-> "close", dev |-> tsub[t], slot |-> ti[t]])
    /\ UNCHANGED <<cmutex, handed, tkb, tprop, tindex, tsub, tvid, calls, snap>>
    /\ UNCHANGED <<wvars, cvars>>

\* The loop of line 109 ends; the loop of line 126 begins.
DisconnectDone(t) ==
    /\ tpc[t] = "disc"
    /\ ToDisconnect(tkb[t], tprop[t], ti[t]) = {}
    /\ tpc' = [tpc EXCEPT ![t] = "conn"]
    /\ ti' = [ti EXCEPT ![t] = 1]
    /\ UNCHANGED <<keyboard, dmutex, cmutex, handed, tkb, tprop, tindex, tsub,
                   tvid, tlog, calls, snap>>
    /\ UNCHANGED <<wvars, cvars>>

\* The loop of line 126 comes to a new child id and starts on the pool
\* (lines 134-137).
ConnectPick(t) ==
    /\ tpc[t] = "conn"
    /\ ToConnect(tkb[t], tprop[t], ti[t]) # {}
    /\ ti' = [ti EXCEPT ![t] = Least(ToConnect(tkb[t], tprop[t], ti[t]))]
    /\ tindex' = [tindex EXCEPT ![t] = 1]
    /\ tpc' = [tpc EXCEPT ![t] = "scan"]
    /\ UNCHANGED <<keyboard, dmutex, cmutex, handed, tkb, tprop, tsub, tvid,
                   tlog, calls, snap>>
    /\ UNCHANGED <<wvars, cvars>>

\* The loop of line 126 ends: the unlock of line 181 and the return.
ConnectDone(t) ==
    /\ tpc[t] = "conn"
    /\ ToConnect(tkb[t], tprop[t], ti[t]) = {}
    /\ cmutex' = pthread_mutex_unlock(cmutex, tkb[t])
    /\ tpc' = [tpc EXCEPT ![t] = "done"]
    /\ tlog' = Logged(t, [ev |-> "cunlock", dev |-> tkb[t]])
    /\ UNCHANGED <<keyboard, dmutex, handed, tkb, tprop, ti, tindex, tsub, tvid, calls, snap>>
    /\ UNCHANGED <<wvars, cvars>>

\* queued_mutex_trylock(dmutex(subkb)) (lines 138-142).
TryLock(t) ==
    /\ tpc[t] = "scan"
    /\ tindex[t] < DEV_MAX
    /\ IF queued_mutex_trylock(dmutex, tindex[t])
       THEN /\ tindex' = [tindex EXCEPT ![t] = @ + 1]
            /\ UNCHANGED <<dmutex, tsub, tpc>>
       ELSE /\ dmutex' = [dmutex EXCEPT ![tindex[t]] = t]
            /\ tsub' = [tsub EXCEPT ![t] = tindex[t]]
            /\ tpc' = [tpc EXCEPT ![t] = "locked"]
            /\ UNCHANGED tindex
    /\ UNCHANGED <<keyboard, cmutex, handed, tkb, tprop, ti, tvid, tlog, calls, snap>>
    /\ UNCHANGED <<wvars, cvars>>

\* A scan that gives up the whole invocation when the pool is full.
ScanExhaustedReturns(t) ==
    /\ tpc[t] = "scan"
    /\ tindex[t] >= DEV_MAX
    /\ tpc' = [tpc EXCEPT ![t] = "done"]
    /\ tlog' = Logged(t, [ev |-> "nofree", slot |-> ti[t]])
    /\ UNCHANGED <<keyboard, dmutex, cmutex, handed, tkb, tprop, ti, tindex, tsub,
                   tvid, calls, snap>>
    /\ UNCHANGED <<wvars, cvars>>

\* The pool holds no free device for this child id (line 179).
ScanExhausted(t) ==
    /\ tpc[t] = "scan"
    /\ tindex[t] >= DEV_MAX
    /\ ti' = [ti EXCEPT ![t] = @ + 1]
    /\ tpc' = [tpc EXCEPT ![t] = "conn"]
    /\ tlog' = Logged(t, [ev |-> "nofree", slot |-> ti[t]])
    /\ UNCHANGED <<keyboard, dmutex, cmutex, handed, tkb, tprop, tindex, tsub,
                   tvid, calls, snap>>
    /\ UNCHANGED <<wvars, cvars>>

\* The device has been initialised already (lines 145-148).
SkipInitialised(t) ==
    /\ tpc[t] = "locked"
    /\ keyboard[tsub[t]].status > DEV_STATUS_DISCONNECTED
    /\ dmutex' = queued_mutex_unlock(dmutex, tsub[t])
    /\ tindex' = [tindex EXCEPT ![t] = @ + 1]
    /\ tpc' = [tpc EXCEPT ![t] = "scan"]
    /\ UNCHANGED <<keyboard, cmutex, handed, tkb, tprop, ti, tsub, tvid, tlog, calls, snap>>
    /\ UNCHANGED <<wvars, cvars>>

\* A claim that numbers the children from 0.
ClaimedDeviceFromZero(dev, kb, i, psize) ==
    [ dev EXCEPT !.status = DEV_STATUS_CONNECTING, !.fwversion = 1234,
                 !.parent = kb, !.out_ep_packet_size = psize,
                 !.vtable = "bragi_mouse", !.bragi_child_id = i - 1 ]

\* The free device as lines 150-159 leave it.
ClaimedDevice(dev, kb, i, psize) ==
    [ dev EXCEPT !.status = DEV_STATUS_CONNECTING, !.fwversion = 1234,
                 !.parent = kb, !.out_ep_packet_size = psize,
                 !.vtable = "bragi_mouse", !.bragi_child_id = i ]

\* The device is free: it is claimed, entered in kb->children and the
\* children-set lock is released (lines 150-165).
Claim(t) ==
    /\ tpc[t] = "locked"
    /\ keyboard[tsub[t]].status <= DEV_STATUS_DISCONNECTED
    /\ LET kb == tkb[t]
           subkb == tsub[t]
           claimed == ClaimedDevice(keyboard[subkb], kb, ti[t],
                                    keyboard[kb].out_ep_packet_size)
       IN  /\ keyboard' = [keyboard EXCEPT ![subkb] = claimed,
                                           ![kb].children[ti[t]] = subkb]
           /\ tlog' = [tlog EXCEPT ![t] = @ \o
                  << [ev |-> "claim", dev |-> subkb, slot |-> ti[t],
                      from |-> keyboard[subkb].status, to |-> claimed.status,
                      was |-> keyboard[kb].children[ti[t]]],
                     [ev |-> "cunlock", dev |-> kb] >>]
    /\ cmutex' = pthread_mutex_unlock(cmutex, tkb[t])
    /\ tpc' = [tpc EXCEPT ![t] = "vid"]
    /\ UNCHANGED <<dmutex, handed, tkb, tprop, ti, tindex, tsub, tvid, calls, snap>>
    /\ UNCHANGED <<wvars, cvars>>

\* ushort vid = bragi_get_property(subkb, BRAGI_VID) (line 168).
QueryVid(t, ok, response) ==
    /\ tpc[t] = "vid"
    /\ tvid' = [tvid EXCEPT ![t] = ToUshort(bragi_get_property_result(ok, response))]
    /\ tpc' = [tpc EXCEPT ![t] = "pid"]
    /\ tlog' = Logged(t, [ev |-> "xact", dev |-> tsub[t], prop |-> BRAGI_VID, ok |-> ok])
    /\ UNCHANGED <<keyboard, dmutex, cmutex, handed, tkb, tprop, ti, tindex, tsub, calls, snap>>
    /\ UNCHANGED <<wvars, cvars>>

\* ushort pid = bragi_get_property(subkb, BRAGI_PID), and both are stored
\* (lines 169-173).
QueryPid(t, ok, response) ==
    /\ tpc[t] = "pid"
    /\ keyboard' = [keyboard EXCEPT
           ![tsub[t]].vendor = tvid[t],
           ![tsub[t]].product = ToUshort(bragi_get_property_result(ok, response))]
    /\ tpc' = [tpc EXCEPT ![t] = "setup"]
    /\ tlog' = Logged(t, [ev |-> "xact", dev |-> tsub[t], prop |-> BRAGI_PID, ok |-> ok])
    /\ UNCHANGED <<dmutex, cmutex, handed, tkb, tprop, ti, tindex, tsub, tvid, calls, snap>>
    /\ UNCHANGED <<wvars, cvars>>

\* A connect sweep that goes on to the next child id after setupusb.
ReturnsAfterConnectNever == FALSE

\* The return of line 177.
ReturnsAfterConnect == TRUE

\* setupusb(subkb) and the return (lines 175-177); the lifecycle lock of
\* subkb stays locked.
SetupUsb(t) ==
    /\ tpc[t] = "setup"
    /\ handed' = [handed EXCEPT ![tsub[t]] = TRUE]
    /\ tpc' = [tpc EXCEPT ![t] = IF ReturnsAfterConnect THEN "done" ELSE "conn"]
    /\ ti' = [ti EXCEPT ![t] = @ + 1]
    /\ tlog' = Logged(t, [ev |-> "setup", dev |-> tsub[t]])
    /\ UNCHANGED <<keyboard, dmutex, cmutex, tkb, tprop, tindex, tsub, tvid, calls, snap>>
    /\ UNCHANGED <<wvars, cvars>>

\* The set-up collaborator finishes with a device it was handed: the device
\* is connected and its lifecycle lock is released.
SetupDone(d) ==
    /\ handed[d]
    /\ handed' = [handed EXCEPT ![d] = FALSE]
    /\ keyboard' = [keyboard EXCEPT ![d].status = DEV_STATUS_CONNECTED]
    /\ dmutex' = [dmutex EXCEPT ![d] = NULL]
    /\ UNCHANGED <<cmutex, tpc, tkb, tprop, ti, tindex, tsub, tvid, tlog, calls, snap>>
    /\ UNCHANGED <<wvars, cvars>>

(***************************************************************************)
(*                          Specifications                                 *)
(***************************************************************************)
vars == <<wvars, cvars, dvars>>

Init == WInit /\ CInit /\ DInit

FramerNext ==
    \/ \E P \in MinPacket..MaxPacket, L \in 0..MaxDataLen : CalcCall(P, L)
    \/ \E bufLen \in BufLens(wReq, wP), handle \in Handles, ndebug \in BOOLEAN,
          adj \in AdjBytes : WriteCall(bufLen, handle, ndebug, adj)
    \/ \E ok \in BOOLEAN, status \in Statuses : SendFirst(ok, status)
    \/ \E ok \in BOOLEAN, status \in Statuses : SendContinuation(ok, status)
    \/ WriteReturn

FramerSpec == Init /\ [][FramerNext]_vars

CodecNext ==
    \/ \E prop \in PropIds : GetCall(prop)
    \/ \E ok \in BOOLEAN, response \in Responses : GetTransact(ok, response)
    \/ \E prop \in PropIds, val \in PropValues : SetCall(prop, val)
    \/ \E ok \in BOOLEAN, response \in Responses : SetTransact(ok, response)

CodecSpec == Init /\ [][CodecNext]_vars

\* The steps of thread t inside bragi_update_dongle_subdevs.
DongleStep(t, outcomes) ==
    \/ LockChildren(t)
    \/ DisconnectLock(t)
    \/ DisconnectClose(t)
    \/ DisconnectDone(t)
    \/ ConnectPick(t)
    \/ ConnectDone(t)
    \/ TryLock(t)
    \/ ScanExhausted(t)
    \/ SkipInitialised(t)
    \/ Claim(t)
    \/ \E ok \in outcomes, response \in DongleResponses :
           QueryVid(t, ok, response)
    \/ \E ok \in outcomes, response \in DongleResponses :
           QueryPid(t, ok, response)
    \/ SetupUsb(t)

DongleNext ==
    \/ \E t \in Threads, kb \in Dongles, prop \in Props : Invoke(t, kb, prop)
    \/ \E t \in Threads : DongleStep(t, {TRUE})
    \/ \E d \in Devs : SetupDone(d)

DongleSpec == Init /\ [][DongleNext]_vars

DongleSeqNext ==
    \/ \E kb \in Dongles, prop \in Props : InvokeAlone(1, kb, prop)
    \/ DongleStep(1, {TRUE})
    \/ \E d \in Devs : SetupDone(d)

DongleSeqSpec == Init /\ [][DongleSeqNext]_vars

\* Scheduling: a thread that can take a step of its invocation takes one
\* in the end (a lock that stays free is acquired, a running thread is not
\* suspended forever), and the set-up collaborator finishes with every
\* device handed to it.
DongleFairness ==
    /\ \A t \in Threads : WF_vars(DongleStep(t, {TRUE}))
    /\ \A d \in Devs : WF_vars(SetupDone(d))

\* The presence bitmasks of the second thread's invocations: child 1 comes
\* and goes.
LiveProps == {0, 2}

\* Two threads: the first invokes on the first dongle, the second on
\* either.
DongleLiveNext ==
    \/ \E prop \in Props : Invoke(1, 1, prop)
    \/ \E kb \in Dongles, prop \in LiveProps : Invoke(2, kb, prop)
    \/ \E t \in Threads : DongleStep(t, {TRUE})
    \/ \E d \in Devs : SetupDone(d)

DongleLiveSpec == Init /\ [][DongleLiveNext]_vars /\ DongleFairness

\* One invoking thread, with a transport that may fail.
DongleFaultNext ==
    \/ \E kb \in Dongles, prop \in Props : InvokeAlone(1, kb, prop)
    \/ DongleStep(1, BOOLEAN)
    \/ \E d \in Devs : SetupDone(d)

DongleFaultSpec == Init /\ [][DongleFaultNext]_vars


(***************************************************************************)
(*                    Properties of the write framer                       *)
(***************************************************************************)

\* Payload bytes one first packet and k - 1 continuation packets carry.
Capacity(P, k) == (P - 7) + (k - 1) * (P - 3)

AllOk == \A k \in 1..Len(resps) : resps[k].ok

\* The call was not turned away by the size check of a debug build.
Admitted == wBufLen >= wReq \/ wNdebug

\* C1: for every packet size P >= 8 and payload length L >= 0 the size
\* bragi_calculate_buffer_size returns is k*P for the least k >= 1 whose
\* capacity (P-7) + (k-1)*(P-3) covers L, and it is P whenever L <= P-7.
C1_SizeIsLeastMultiple ==
    wpc # "idle" =>
        /\ \E k \in 1..(wL + 1) :
              /\ wReq = k * wP
              /\ Capacity(wP, k) >= wL
              /\ \A j \in 1..(k - 1) : Capacity(wP, j) < wL
        /\ (wL <= wP - 7 => wReq = wP)

\* A size of three packets, for a payload one byte past two packets.
C1_Witness ==
    /\ wpc = "sized"
    /\ wL = Capacity(wP, 2) + 1
    /\ wReq = 3 * wP

\* The payload bytes the packets sent carry, in transmission order: bytes
\* 7..P-1 of the first packet and bytes 3..P-1 of each continuation packet.
RECURSIVE DeliveredFrom(_)
DeliveredFrom(k) ==
    IF k > Len(sent) THEN << >>
    ELSE SubSeq(sent[k].data, IF k = 1 THEN 8 ELSE 4, wP) \o DeliveredFrom(k + 1)

Delivered == DeliveredFrom(1)

\* C2: for a buffer laid out as required (7 zero header bytes, payload from
\* offset 7, length at least the required size) and no transport failure,
\* the packets' payload parts, concatenated in transmission order, begin
\* with the L payload bytes, and no payload byte is delivered a second time.
C2_PayloadDeliveredInOrder ==
    (wpc = "done" /\ wret = 0 /\ AllOk /\ wBufLen >= wReq) =>
        /\ Len(Delivered) >= wL
        /\ SubSeq(Delivered, 1, wL) = Payload(wL)
        /\ \A j \in (wL + 1)..Len(Delivered) :
              \A k \in 1..wL : Delivered[j] # PayloadByte(k - 1)

\* A payload spread over three packets has been delivered.
C2_Witness ==
    /\ wpc = "done" /\ wret = 0 /\ AllOk /\ wBufLen = wReq
    /\ Len(sent) = 3
    /\ wL = Capacity(wP, 3)
    /\ SubSeq(Delivered, 1, wL) = Payload(wL)

\* C3: when no transport failure occurs, the number of packets transmitted
\* (first plus continuation) is bragi_calculate_buffer_size(P, L) / P.
C3_PacketCountMatchesSize ==
    (wpc = "done" /\ AllOk /\ Admitted) => Len(sent) * wP = wReq

\* Four packets were sent for a size of four packets.
C3_Witness ==
    /\ wpc = "done" /\ AllOk /\ Admitted
    /\ Len(sent) = 4
    /\ wReq = 4 * wP

\* C6: a transport failure on the first or on a continuation packet ends
\* the call at once: the failed packet is the last one handed to the
\* transport and the call returns 1, never 0.
C6_TransportFailureAborts ==
    \A k \in 1..Len(resps) :
        ~resps[k].ok => (k = Len(sent) /\ wpc = "done" /\ wret = 1)

\* The second continuation packet failed although more were due.
C6_Witness ==
    /\ wpc = "done" /\ wret = 1
    /\ Len(resps) = 3 /\ ~resps[3].ok
    /\ wReq >= 4 * wP

\* The offsets of the continuation packets of a call whose every packet is
\* answered with status 0, from window start po on.
RECURSIVE ZeroStatusOffsets(_, _, _)
ZeroStatusOffsets(po, P, L) ==
    IF LoopContinues(po, P, L)
    THEN << ContinuationOffset(po, P) >>
            \o ZeroStatusOffsets(ContinuationOffset(po, P), P, L)
    ELSE << >>

SentOffsets == [k \in 1..Len(sent) |-> sent[k].off]

\* C7: a non-zero status byte in the answer to a continuation packet does
\* not end the call: the packets go out in the same number and order as
\* when every status is 0.
C7_StatusDoesNotAbort ==
    (wpc = "done" /\ AllOk /\ Admitted) =>
        SentOffsets = << 0 >> \o ZeroStatusOffsets(0, wP, wL)

\* The first continuation packet was refused and two more followed.
C7_Witness ==
    /\ wpc = "done" /\ wret = 0 /\ AllOk
    /\ Len(resps) = 4
    /\ resps[2].status # 0

\* C8: a call with bufferLen below the required size transmits no packet
\* and returns an error, a value other than the 0 of success.
C8_UndersizedBufferRejected ==
    (wpc = "done" /\ wBufLen < wReq) => (sent = << >> /\ wret # 0)

(***************************************************************************)
(*                   Properties of the property codec                      *)
(***************************************************************************)

\* C4: bragi_get_property makes exactly one transaction; it returns -1 when
\* the transaction fails, otherwise -2 when response byte 2 is non-zero,
\* otherwise response[3] + 256*response[4], which lies in 0..65535 and so
\* is neither error value.
C4_GetPropertyOutcome ==
    (cpc = "done" /\ cop = "get") =>
        /\ Len(creq) = 1
        /\ SubSeq(creq[1], 1, 4) = << BRAGI_MAGIC, BRAGI_GET, cprop, 0 >>
        /\ ~cresp.ok => cret = -1
        /\ (cresp.ok /\ cresp.bytes[3] # 0) => cret = -2
        /\ (cresp.ok /\ cresp.bytes[3] = 0) =>
              /\ cret = cresp.bytes[4] + 256 * cresp.bytes[5]
              /\ cret \in 0..65535

\* The answer [_, _, 0, 0x34, 0x12] was decoded as 0x1234.
C4_Witness ==
    /\ cpc = "done" /\ cop = "get" /\ cresp.ok
    /\ cresp.bytes = << 0, 0, 0, 52, 18 >>
    /\ cret = 4660

\* C5: bragi_set_property sends exactly one request, whose first six bytes
\* are MAGIC, SET, propertyId, 0 and the value low byte first; it returns 0
\* iff the transaction succeeds with response byte 2 equal to 0, -1 when the
\* transaction fails and -2 on a non-zero status.
C5_SetPropertyOutcome ==
    (cpc = "done" /\ cop = "set") =>
        /\ Len(creq) = 1
        /\ SubSeq(creq[1], 1, 4) = << BRAGI_MAGIC, BRAGI_SET, cprop, 0 >>
        /\ creq[1][5] \in 0..255 /\ creq[1][6] \in 0..255
        /\ creq[1][5] + 256 * creq[1][6] = cval
        /\ (cret = 0) <=> (cresp.ok /\ cresp.bytes[3] = 0)
        /\ ~cresp.ok => cret = -1
        /\ (cresp.ok /\ cresp.bytes[3] # 0) => cret = -2

\* 0x1234 was set for property 5 and the device accepted it.
C5_Witness ==
    /\ cpc = "done" /\ cop = "set" /\ cprop = 5 /\ cval = 4660
    /\ creq = << << BRAGI_MAGIC, BRAGI_SET, 5, 0, 52, 18 >> >>
    /\ cret = 0

(***************************************************************************)
(*                      Properties of discovery                            *)
(***************************************************************************)

\* The connects the current (or last) invocation of thread t has made.
Claims(t) == SelectSeq(tlog[t], LAMBDA e : e.ev = "claim")

\* C9: in a single invocation at most one pool slot goes from Disconnected
\* to Connecting and at most one entry of the children array goes from
\* empty to occupied, however many presence bits are set with empty
\* entries; the other new children are left to later invocations.
C9_AtMostOneConnectPerInvocation ==
    \A t \in Threads :
        /\ Len(SelectSeq(Claims(t), LAMBDA e :
                 e.from = DEV_STATUS_DISCONNECTED /\ e.to = DEV_STATUS_CONNECTING)) <= 1
        /\ Len(SelectSeq(Claims(t), LAMBDA e : e.was = NULL)) <= 1
        /\ Len(Claims(t)) <= 1

\* An invocation told of children 1 and 7, both new, has returned with
\* child 1 connected and the entry of child 7 still empty.
C9_Witness ==
    \E t \in Threads :
        /\ tpc[t] = "done" /\ tprop[t] = 130
        /\ Len(Claims(t)) = 1
        /\ Claims(t)[1].slot = 1 /\ Claims(t)[1].was = NULL
        /\ Claims(t)[1].from = DEV_STATUS_DISCONNECTED
        /\ keyboard[tkb[t]].children[1] = Claims(t)[1].dev
        /\ keyboard[tkb[t]].children[7] = NULL

\* The pool had a free slot when the invocation began.
FreeSlotAtStart ==
    \E d \in Devs : /\ snap.dmutex[d] = NULL
                    /\ snap.keyboard[d].status = DEV_STATUS_DISCONNECTED

\* prop has bit i set and no other bit of 1..7.
OnlyBit(prop, i) == Bit(prop, i) /\ \A j \in ChildIds \ {i} : ~Bit(prop, j)

\* Device e is as it was when the invocation began, but for what the
\* set-up collaborator does when it finishes with a device handed to it
\* earlier: the device becomes connected and its lifecycle lock is free.
Undisturbed(e) ==
    /\ \/ keyboard[e] = snap.keyboard[e]
       \/ /\ snap.keyboard[e].status = DEV_STATUS_CONNECTING
          /\ keyboard[e] = [snap.keyboard[e] EXCEPT !.status = DEV_STATUS_CONNECTED]
    /\ \/ dmutex[e] = snap.dmutex[e]
       \/ dmutex[e] = NULL

\* C10: with an empty children array, exactly one presence bit i in 1..7
\* set and a free pool slot, the invocation takes exactly one pool slot
\* from Disconnected to Connecting, gives it child id i, the dongle as
\* parent and the dongle's packet size, and stores it at children[i-1];
\* no other pool slot and no other children entry changes.
C10_SingleChildConnected ==
    \A i \in ChildIds :
        ( /\ tpc[1] = "done"
          /\ snap.keyboard # << >>
          /\ \A j \in ChildIds : snap.keyboard[tkb[1]].children[j] = NULL
          /\ OnlyBit(tprop[1], i)
          /\ FreeSlotAtStart )
        =>
        /\ Len(Claims(1)) = 1
        /\ LET c == Claims(1)[1]
               kb == tkb[1]
           IN  /\ c.slot = i
               /\ snap.keyboard[c.dev].status = DEV_STATUS_DISCONNECTED
               /\ c.from = DEV_STATUS_DISCONNECTED /\ c.to = DEV_STATUS_CONNECTING
               /\ keyboard[c.dev].status \in {DEV_STATUS_CONNECTING, DEV_STATUS_CONNECTED}
               /\ keyboard[c.dev].bragi_child_id = i
               /\ keyboard[c.dev].parent = kb
               /\ keyboard[c.dev].out_ep_packet_size = keyboard[kb].out_ep_packet_size
               /\ keyboard[kb] = [snap.keyboard[kb] EXCEPT !.children[i] = c.dev]
               /\ \A e \in Devs \ {c.dev, kb} : Undisturbed(e)

\* Told of child 7 alone, the invocation has entered a device of the pool
\* at children[6] while another device was still being set up.
C10_Witness ==
    /\ tpc[1] = "done" /\ tprop[1] = 128 /\ snap.keyboard # << >>
    /\ \A j \in ChildIds : snap.keyboard[tkb[1]].children[j] = NULL
    /\ Len(Claims(1)) = 1
    /\ keyboard[tkb[1]].children[7] = Claims(1)[1].dev
    /\ keyboard[Claims(1)[1].dev].bragi_child_id = 7
    /\ \E e \in Devs : snap.keyboard[e].status = DEV_STATUS_CONNECTING
\* The devices the current (or last) invocation of thread t has closed.
Closes(t) == SelectSeq(tlog[t], LAMBDA e : e.ev = "close")

\* Thread t is past the disconnect sweep of its invocation.
SweepDone(t) == tpc[t] \in {"conn", "scan", "locked", "vid", "pid", "setup", "done"}

\* C11: every child slot i in 1..7 whose presence bit is clear and whose
\* entry was occupied when the disconnect sweep began has been closed and
\* its entry cleared once the sweep is done, and the invoking thread does
\* not hold that device's lifecycle lock then; a child whose presence bit
\* is set is neither closed nor cleared.
C11_DisconnectSweep ==
    (snap.keyboard # << >> /\ SweepDone(1)) =>
        \A i \in ChildIds :
            LET kb == tkb[1]
                s == snap.keyboard[kb].children[i]
            IN  /\ (~Bit(tprop[1], i) /\ s # NULL) =>
                      /\ \E k \in 1..Len(Closes(1)) :
                            Closes(1)[k].dev = s /\ Closes(1)[k].slot = i
                      /\ keyboard[kb].children[i] = NULL
                      /\ tpc[1] = "conn" => dmutex[s] # 1
                /\ (~Bit(tprop[1], i) /\ s = NULL) =>
                      \A k \in 1..Len(Closes(1)) : Closes(1)[k].slot # i
                /\ Bit(tprop[1], i) =>
                      /\ \A k \in 1..Len(Closes(1)) :
                            Closes(1)[k].slot # i /\ Closes(1)[k].dev # s
                      /\ s # NULL =>
                            /\ keyboard[kb].children[i] = s
                            /\ keyboard[s].status > DEV_STATUS_DISCONNECTED
                            /\ keyboard[s].parent = kb

\* With children 1 and 7 connected and only child 7 still present, the
\* invocation has closed child 1 and left child 7 in place.
C11_Witness ==
    /\ tpc[1] = "done" /\ tprop[1] = 128 /\ snap.keyboard # << >>
    /\ snap.keyboard[tkb[1]].children[1] # NULL
    /\ snap.keyboard[tkb[1]].children[7] # NULL
    /\ Len(Closes(1)) = 1
    /\ Closes(1)[1].dev = snap.keyboard[tkb[1]].children[1]
    /\ keyboard[tkb[1]].children[1] = NULL
    /\ keyboard[tkb[1]].children[7] = snap.keyboard[tkb[1]].children[7]
    /\ dmutex[Closes(1)[1].dev] = NULL

\* The children array of the dongle agreed with prop when the invocation
\* of thread 1 began.
AgreedAtStart ==
    /\ snap.keyboard # << >>
    /\ \A i \in ChildIds :
          Bit(tprop[1], i) <=> snap.keyboard[tkb[1]].children[i] # NULL

\* C12: when the children array already agrees with the presence bitmask,
\* an invocation claims no pool slot, closes no device, takes no lifecycle
\* lock, leaves every device as it was and returns with the children-set
\* lock released.
C12_Idempotent ==
    (AgreedAtStart /\ tpc[1] # "idle") =>
        /\ tpc[1] \in {"enter", "disc", "conn", "done"}
        /\ tlog[1] \in { << >>, << [ev |-> "cunlock", dev |-> tkb[1]] >> }
        /\ \A d \in Devs :
              /\ dmutex[d] = 1 => (handed[d] /\ snap.dmutex[d] = 1)
              /\ Undisturbed(d)
        /\ tpc[1] = "done" => cmutex[tkb[1]] = NULL

\* Children 1 and 7 were connected already and the dongle reported both
\* again: the invocation has returned.
C12_Witness ==
    /\ AgreedAtStart /\ tpc[1] = "done" /\ tprop[1] = 130
    /\ keyboard[tkb[1]].children[1] # NULL
    /\ keyboard[tkb[1]].children[7] # NULL
    /\ tlog[1] = << [ev |-> "cunlock", dev |-> tkb[1]] >>
    /\ cmutex[tkb[1]] = NULL
(***************************************************************************)
(*               Properties of discovery under concurrency                 *)
(***************************************************************************)

\* The entries of the children arrays that hold device s.
Entries(s) ==
    { e \in Devs \X ChildIds : keyboard[e[1]].children[e[2]] = s }

\* The invocation of thread t has pool slot s in hand: from the trylock
\* that gave it the slot until it returns.
Claiming(t, s) ==
    /\ tpc[t] \in {"locked", "vid", "pid", "setup"}
    /\ tsub[t] = s

\* C13: under any interleaving of concurrent invocations, on the same or
\* on different dongles, a pool slot is in the hands of at most one
\* invocation at a time and a device occupies at most one entry over all
\* parents' children arrays.
C13_SlotClaimedOnce ==
    /\ \A t, u \in Threads :
          (t # u /\ Claiming(t, tsub[t]) /\ Claiming(u, tsub[u])) =>
              tsub[t] # tsub[u]
    /\ \A t \in Threads : Claiming(t, tsub[t]) => dmutex[tsub[t]] = t
    /\ \A p \in Devs : \A i \in ChildIds :
          keyboard[p].children[i] # NULL =>
              \A q \in Devs : \A j \in ChildIds :
                  keyboard[q].children[j] = keyboard[p].children[i] =>
                      (q = p /\ j = i)

\* Two invocations on different dongles are connecting a child each at
\* the same time, in different pool slots.
C13_Witness ==
    /\ tpc[1] = "vid" /\ tpc[2] = "pid"
    /\ tkb[1] # tkb[2] /\ ti[1] = ti[2]
    /\ tsub[1] # tsub[2]
    /\ Entries(tsub[1]) = { <<tkb[1], ti[1]>> }
    /\ Entries(tsub[2]) = { <<tkb[2], ti[2]>> }
\* The positions in the log of thread t that hold an event of kind ev.
At(t, ev) == { k \in 1..Len(tlog[t]) : tlog[t][k].ev = ev }

\* C14: every invocation releases the dongle's children-set lock exactly
\* once on every path, the early return after a connect or the normal end
\* of the connect sweep; on the connect path the release comes after
\* children[i-1] is written and before the first VID/PID transaction and
\* the set-up call, so that the invoking thread never holds the lock
\* during a transaction nor after it has returned.
C14_ChildrenLockReleasedOnce ==
    \A t \in Threads :
        LET unlocks == At(t, "cunlock")
            claims == At(t, "claim")
        IN  /\ Cardinality(unlocks) <= 1
            /\ tpc[t] = "done" =>
                  /\ Cardinality(unlocks) = 1
                  /\ \A k \in unlocks : tlog[t][k].dev = tkb[t]
            /\ tpc[t] \in {"disc", "close", "conn", "scan", "locked"} =>
                  /\ cmutex[tkb[t]] = t
                  /\ unlocks = {}
            /\ tpc[t] \in {"vid", "pid", "setup", "done"} => cmutex[tkb[t]] # t
            /\ \A k \in claims :
                  /\ k + 1 \in unlocks
                  /\ keyboard[tkb[t]].children[tlog[t][k].slot] # NULL
                         \/ tpc[t] = "done"
            /\ \A k \in At(t, "xact") \cup At(t, "setup") :
                  \E j \in unlocks : j < k /\ j - 1 \in claims
            /\ \A k \in unlocks : k = Len(tlog[t]) \/ k - 1 \in claims

\* An invocation has closed one child, connected another and returned:
\* the entry was written, the lock released, then the two queries and the
\* set-up call were made.
C14_Witness ==
    \E t \in Threads :
        /\ tpc[t] = "done"
        /\ Len(tlog[t]) = 6
        /\ [k \in 1..6 |-> tlog[t][k].ev]
             = << "close", "claim", "cunlock", "xact", "xact", "setup" >>
        /\ cmutex[tkb[t]] # t
\* The invocation of thread t waits for the lifecycle lock of a child it
\* is to disconnect (line 118).
WaitsForChild(t) ==
    /\ tpc[t] = "disc"
    /\ ToDisconnect(tkb[t], tprop[t], ti[t]) # {}
    /\ dmutex[keyboard[tkb[t]].children[
                 Least(ToDisconnect(tkb[t], tprop[t], ti[t]))]] # NULL

\* C15: with several threads running bragi_update_dongle_subdevs over the
\* shared pool, and the set-up collaborator releasing in the end every
\* lifecycle lock handed to it, every invocation returns: from wherever a
\* thread is in its invocation, waiting for the children-set lock or for a
\* child's lifecycle lock included, it comes to the return.
C15_EveryInvocationReturns ==
    \A t \in Threads : (tpc[t] \notin {"idle", "done"}) ~> (tpc[t] = "done")

\* A thread holding the children-set lock of a dongle waits for the
\* lifecycle lock of a child that another invocation is still connecting,
\* while the other thread waits for that children-set lock.
C15_Witness ==
    \E t, u \in Threads :
        /\ t # u
        /\ WaitsForChild(t)
        /\ cmutex[tkb[t]] = t
        /\ tpc[u] = "enter" /\ tkb[u] = tkb[t]
        /\ \E d \in Devs : dmutex[d] = u /\ handed[d]
(***************************************************************************)
(*             Properties of discovery with a failing transport            *)
(***************************************************************************)

\* C16: a transport failure of the VID or PID query of the connect sweep
\* ends the connect at once: no transaction follows it, the set-up
\* collaborator is not called, and the error result is not stored as the
\* device's vendor or product id.
C16_QueryFailureAborts ==
    \A k \in At(1, "xact") :
        ~tlog[1][k].ok =>
            /\ k = Len(tlog[1])
            /\ ~handed[tlog[1][k].dev]
            /\ tlog[1][k].prop = BRAGI_VID =>
                  keyboard[tlog[1][k].dev].vendor # ToUshort(-1)
            /\ tlog[1][k].prop = BRAGI_PID =>
                  keyboard[tlog[1][k].dev].product # ToUshort(-1)
(***************************************************************************)
(*              Properties of the write framer's buffer use                *)
(***************************************************************************)

\* The buffer offsets the continuation header of the k-th packet sent
\* (k >= 2) was written to.
HeaderOffsets(k) == { sent[k].off + j : j \in 0..2 }

\* The byte at offset o of the buffer when the first packet went out: the
\* first packet's header, the payload, then padding.
SentFrom(o) ==
    IF o < 7 THEN FirstHeader(wHandle, wL)[o + 1]
    ELSE IF o < 7 + wL THEN PayloadByte(o - 7)
    ELSE 0

\* C17 as stated: every byte overwritten with a continuation header is a
\* slack or padding byte, never a byte of the caller's payload, which
\* lies at buffer offsets 7 .. 7+L-1.
C17_HeadersOverwriteOnlyPadding ==
    wBufLen >= wReq =>
        \A k \in 2..Len(sent) :
            \A o \in HeaderOffsets(k) : o \notin 7..(6 + wL)

\* C17 as amended: every byte overwritten with a continuation header is
\* one of the last three bytes of the packet sent just before, where it
\* went out as the caller had it; it lies below offset 7+L, so it is no
\* padding byte, and the last byte of every continuation header lands on
\* a payload byte.
C17_HeadersOverwriteSentBytes ==
    wBufLen >= wReq =>
        \A k \in 2..Len(sent) :
            /\ \A o \in HeaderOffsets(k) :
                  /\ o \in (sent[k-1].off + wP - 3)..(sent[k-1].off + wP - 1)
                  /\ o < 7 + wL
                  /\ sent[k-1].data[o - sent[k-1].off + 1] = SentFrom(o)
                  /\ sent[k].data[o - sent[k].off + 1]
                        = ContinueHeader[o - sent[k].off + 1]
            /\ sent[k].off + 2 \in 7..(6 + wL)

\* Three continuation packets went out: each header took the place of
\* three bytes of the packet before it, payload bytes among them.
C17_Witness ==
    /\ wpc = "done" /\ wret = 0 /\ wBufLen >= wReq
    /\ Len(sent) = 4
    /\ \A k \in 2..4 : \E o \in HeaderOffsets(k) :
          /\ o \in 7..(6 + wL)
          /\ sent[k-1].data[o - sent[k-1].off + 1] = PayloadByte(o - 7)
          /\ Byte(mem, o) # PayloadByte(o - 7)
\* C18: for every P >= 8 and L >= 0, each P-byte window the call hands to
\* the transport and each 3-byte continuation header it writes lies within
\* buffer offsets 0 .. bragi_calculate_buffer_size(P, L) - 1: the loop
\* neither reads nor writes past the size the formula tells the caller to
\* allocate.
C18_WindowsWithinComputedSize ==
    /\ \A k \in 1..Len(sent) :
          /\ sent[k].off >= 0
          /\ sent[k].off + wP <= wReq
          /\ Len(sent[k].data) = wP
    /\ \A k \in 2..Len(sent) :
          \A o \in HeaderOffsets(k) : o >= 0 /\ o < wReq
    /\ wpc \in {"first", "loop"} => Len(FirstHeader(wHandle, wL)) <= wReq
    /\ pkt_out >= 0 /\ pkt_out <= wReq
    /\ (wpc = "done" /\ wret = 0 /\ sent # << >>) =>
          sent[Len(sent)].off + wP >= wL + 7

\* Four packets went out of a buffer of exactly the computed size; the
\* last window ends nine bytes before the buffer does.
C18_Witness ==
    /\ wpc = "done" /\ wret = 0 /\ wBufLen = wReq
    /\ Len(sent) = 4
    /\ sent[4].off + wP = wReq - 9
    /\ sent[4].off + wP >= wL + 7
(***************************************************************************)
(*                 Properties of the lifecycle locks                       *)
(***************************************************************************)

\* Thread t returns from the invocation in which it claimed a pool slot
\* (lines 175-177).
ReturnsWithClaim(t) == tpc[t] = "setup" /\ tpc'[t] = "done"

\* C19: when an invocation returns after claiming a pool slot, the
\* lifecycle lock of the claimed device is still locked as the invoking
\* thread locked it, handed to the set-up collaborator, and it is the only
\* one the invocation leaves locked: the locks taken in the pool scan on
\* slots found initialised and in the disconnect sweep have been released
\* (a lock handed over by an earlier invocation stays with the
\* collaborator).  From the claim to the return the thread does not
\* release the claimed device's lock.
C19_LifecycleLockHandedOff ==
    /\ [](\A t \in Threads :
            /\ tpc[t] \in {"vid", "pid", "setup"} =>
                  /\ dmutex[tsub[t]] = t
                  /\ ~handed[tsub[t]]
                  /\ \A d \in Devs \ {tsub[t]} : dmutex[d] = t => handed[d]
            /\ tpc[t] \in {"idle", "enter", "conn", "done"} =>
                  \A d \in Devs : dmutex[d] = t => handed[d])
    /\ [][\A t \in Threads :
            ReturnsWithClaim(t) =>
                /\ dmutex'[tsub[t]] = t
                /\ handed'[tsub[t]]
                /\ Cardinality({ d \in Devs : dmutex'[d] = t /\ ~handed[d] }) = 1
                /\ \A d \in Devs \ {tsub[t]} : dmutex'[d] = dmutex[d]]_vars

\* An invocation has closed a child, passed over the initialised slots,
\* claimed a free one and returned: the claimed device's lifecycle lock is
\* the only one still locked by its thread.
C19_Witness ==
    \E t \in Threads :
        /\ tpc[t] = "done"
        /\ Len(Closes(t)) = 1 /\ Len(Claims(t)) = 1
        /\ Claims(t)[1].dev > Closes(t)[1].dev
        /\ dmutex[Claims(t)[1].dev] = t /\ handed[Claims(t)[1].dev]
        /\ \A d \in Devs \ {Claims(t)[1].dev} : dmutex[d] = NULL
(***************************************************************************)
(*                   Properties of a full device pool                      *)
(***************************************************************************)

\* The child ids for which the invocation of thread t found no free slot.
NoFree(t) == SelectSeq(tlog[t], LAMBDA e : e.ev = "nofree")

\* When the invocation of thread 1 began, every pool slot was locked or
\* had a status beyond Disconnected, and the dongle had no child to
\* disconnect, whose slot the disconnect sweep would have freed.
PoolFullAtStart ==
    /\ snap.keyboard # << >>
    /\ \A d \in Devs :
          \/ snap.dmutex[d] # NULL
          \/ snap.keyboard[d].status > DEV_STATUS_DISCONNECTED
    /\ \A i \in ChildIds :
          snap.keyboard[tkb[1]].children[i] # NULL => Bit(tprop[1], i)

\* The child ids newly present when the invocation of thread 1 began.
NewAtStart ==
    { i \in ChildIds : /\ Bit(tprop[1], i)
                       /\ snap.keyboard[tkb[1]].children[i] = NULL }

\* C20: when no pool slot is free for a newly present child id i, the
\* invocation reports it, changes no pool slot and leaves children[i-1]
\* empty, goes on to the next presence bit, and returns holding neither a
\* lifecycle lock nor the children-set lock.
C20_NoFreeSlot ==
    (PoolFullAtStart /\ NewAtStart # {} /\ tpc[1] = "done") =>
        /\ Claims(1) = << >> /\ Closes(1) = << >>
        /\ { NoFree(1)[k].slot : k \in 1..Len(NoFree(1)) } = NewAtStart
        /\ \A j, k \in 1..Len(NoFree(1)) :
              j < k => NoFree(1)[j].slot < NoFree(1)[k].slot
        /\ tlog[1] = NoFree(1) \o << [ev |-> "cunlock", dev |-> tkb[1]] >>
        /\ \A i \in NewAtStart : keyboard[tkb[1]].children[i] = NULL
        /\ \A d \in Devs :
              /\ Undisturbed(d)
              /\ dmutex[d] = 1 => (handed[d] /\ snap.dmutex[d] = 1)
        /\ cmutex[tkb[1]] = NULL

\* With both free slots taken by the first dongle's children, the second
\* dongle reported children 1 and 7: the invocation found no slot for
\* either and returned.
C20_Witness ==
    /\ PoolFullAtStart /\ tpc[1] = "done" /\ tprop[1] = 130
    /\ NewAtStart = {1, 7}
    /\ Len(NoFree(1)) = 2
    /\ NoFree(1)[1].slot = 1 /\ NoFree(1)[2].slot = 7
    /\ keyboard[tkb[1]].children = [i \in ChildIds |-> NULL]
    /\ cmutex[tkb[1]] = NULL
=============================================================================
